---- MODULE Spec2Model ----
(***************************************************************************)
(* Model of the log analyzer of app/main.go: analyzeLog, the rule          *)
(* evaluator that maps one LogEntry to an AnalysisResult.                  *)
(*                                                                         *)
(* Temperatures (float64 in the source) are carried in hundredths of a     *)
(* degree, so 80.0 is 8000 and 80.1 is 8010.  The comparison against the   *)
(* threshold is made on that unrounded value; only the rendering with      *)
(* "%.1f" rounds to tenths.                                                *)
(***************************************************************************)
EXTENDS Integers, Sequences, FiniteSets, TLC

VARIABLES
    log,        \* the LogEntry argument of the running analyzeLog call
    result,     \* the AnalysisResult built by analyzeLog / held by the caller
    pc,         \* position inside analyzeLog
    earlier,    \* an earlier completed invocation: its record and its result
    req,        \* the HTTP request the handler is serving
    hpc,        \* position inside the handler
    hlog,       \* the handler's `var log LogEntry`
    hresult,    \* the handler's `result`, the value analyzeLog returned
    idx,        \* the next element of result.Alerts the print loop visits
    console,    \* the lines written to standard output while serving req
    resp,       \* what has been written to the http.ResponseWriter of req
    frames      \* the frames of analyzeLog invocations running concurrently

\* the handler's state
handler == <<req, hpc, hlog, hresult, idx, console, resp>>

vars == <<log, result, pc, earlier, req, hpc, hlog, hresult, idx, console, resp, frames>>

(***************************************************************************)
(* Thresholds (main.go, const block).                                      *)
(***************************************************************************)
ResponseTimeThreshold == 2000

\* 80.0 degrees, in hundredths
TemperatureThreshold == 8000

(***************************************************************************)
(* Input domains: the field values a decoded LogEntry is drawn from.       *)
(***************************************************************************)
Levels == {"ERROR", "INFO", "error", ""}

ResponseTimes == {-1, 0, 2000, 2001, 2500}

\* -5.0, 0.0, 80.0, 80.04, 80.1, 85.0 (hundredths of a degree)
Temperatures == {-500, 0, 8000, 8004, 8010, 8500}

DeviceIDs == {"", "sensor-001"}

Messages == {"", "Connection failed"}

LogEntry == [Level : Levels, ResponseTime : ResponseTimes, DeviceID : DeviceIDs,
             Temperature : Temperatures, Message : Messages]

\* the zero value of LogEntry (every field absent from the decoded JSON)
ZeroLogEntry == [Level |-> "", ResponseTime |-> 0, DeviceID |-> "",
                 Temperature |-> 0, Message |-> ""]

\* the zero value of AnalysisResult (Alerts is the nil slice).  NilAlerts
\* records that Alerts was left nil when the value was built; a slice is
\* nil while nothing has been appended to such a value.
ZeroAnalysisResult == [Status |-> "", Alerts |-> <<>>, DeviceID |-> "", NilAlerts |-> TRUE]

\* result.Alerts == nil
AlertsIsNil(r) == r.NilAlerts /\ Len(r.Alerts) = 0

NoInvocation == [done |-> FALSE, log |-> ZeroLogEntry, result |-> ZeroAnalysisResult]

(***************************************************************************)
(* fmt.Sprintf verbs used by analyzeLog.                                   *)
(***************************************************************************)
Digit(d) == <<"0", "1", "2", "3", "4", "5", "6", "7", "8", "9">>[d + 1]

RECURSIVE FormatNat(_)
FormatNat(n) == IF n < 10 THEN Digit(n)
                ELSE FormatNat(n \div 10) \o Digit(n % 10)

\* %d
FormatInt(n) == IF n < 0 THEN "-" \o FormatNat(-n) ELSE FormatNat(n)

\* the number of tenths "%.1f" prints for a magnitude of a hundredths:
\* nearest tenth, an exact tie going to the even digit.  A float64 holds a
\* tie exactly only at x.25 and x.75; the other x.x5 values are rounded by
\* their binary neighbour and are kept out of Temperatures.
RoundTenths(a) ==
    LET q == a \div 10
        r == a % 10
    IN  IF r > 5 \/ (r = 5 /\ q % 2 = 1) THEN q + 1 ELSE q

\* %.1f of a value given in hundredths
FormatFloat1(h) ==
    LET a == IF h < 0 THEN -h ELSE h
        t == RoundTenths(a)
    IN  (IF h < 0 THEN "-" ELSE "") \o FormatNat(t \div 10) \o "." \o Digit(t % 10)

\* variant: the message is not interpolated
ErrorAlert_DropsMessage(message) == "Error detected: "

\* fmt.Sprintf("Error detected: %s", log.Message)
ErrorAlert(message) == "Error detected: " \o message

\* fmt.Sprintf("High response time: %dms (threshold: %dms)", rt, threshold)
ResponseTimeAlert(rt, threshold) ==
    "High response time: " \o FormatInt(rt) \o "ms (threshold: "
        \o FormatInt(threshold) \o "ms)"

\* fmt.Sprintf("High temperature: %.1f°C (threshold: %.1f°C)", t, threshold)
TemperatureAlert(t, threshold) ==
    "High temperature: " \o FormatFloat1(t) \o "°C (threshold: "
        \o FormatFloat1(threshold) \o "°C)"

(***************************************************************************)
(* HTTP requests.  A body is either a JSON object holding some of the      *)
(* fields of a log record, or something json.Decoder rejects with an       *)
(* error text.                                                             *)
(***************************************************************************)
Methods == {"POST", "GET"}

JSONKeys == {"level", "response_time", "device_id", "temperature", "message"}

\* the struct field a JSON key is tagged to
FieldOf(rec, k) ==
    CASE k = "level"         -> rec.Level
      [] k = "response_time" -> rec.ResponseTime
      [] k = "device_id"     -> rec.DeviceID
      [] k = "temperature"   -> rec.Temperature
      [] k = "message"       -> rec.Message

JSONObjects == {[k \in K |-> FieldOf(rec, k)] : rec \in LogEntry, K \in SUBSET JSONKeys}

EmptyObject == [k \in {} |-> ""]

DecodeErrors == {"unexpected EOF",
                 "invalid character 'x' looking for beginning of value"}

Requests ==
    [method : Methods, wellFormed : {TRUE}, object : JSONObjects, err : {""}]
        \cup [method : Methods, wellFormed : {FALSE}, object : {EmptyObject},
              err : DecodeErrors]

NoRequest == [method |-> "", wellFormed |-> FALSE, object |-> EmptyObject, err |-> ""]

\* nothing written to the ResponseWriter yet
NoResponse == [code |-> 0, contentType |-> "", body |-> ""]

\* variant: an absent temperature is given a sentinel in place of 0.0
DecodeObject_TemperatureSentinel(o) ==
    [Level        |-> IF "level" \in DOMAIN o THEN o["level"] ELSE "",
     ResponseTime |-> IF "response_time" \in DOMAIN o THEN o["response_time"] ELSE 0,
     DeviceID     |-> IF "device_id" \in DOMAIN o THEN o["device_id"] ELSE "",
     Temperature  |-> IF "temperature" \in DOMAIN o THEN o["temperature"] ELSE 9999,
     Message      |-> IF "message" \in DOMAIN o THEN o["message"] ELSE ""]

\* json.NewDecoder(r.Body).Decode(&log) on a well-formed object: log is the
\* zero LogEntry, and only the keys present in the object are assigned
DecodeObject(o) ==
    [Level        |-> IF "level" \in DOMAIN o THEN o["level"] ELSE ZeroLogEntry.Level,
     ResponseTime |-> IF "response_time" \in DOMAIN o THEN o["response_time"]
                      ELSE ZeroLogEntry.ResponseTime,
     DeviceID     |-> IF "device_id" \in DOMAIN o THEN o["device_id"]
                      ELSE ZeroLogEntry.DeviceID,
     Temperature  |-> IF "temperature" \in DOMAIN o THEN o["temperature"]
                      ELSE ZeroLogEntry.Temperature,
     Message      |-> IF "message" \in DOMAIN o THEN o["message"]
                      ELSE ZeroLogEntry.Message]

\* http.Error(w, msg, code): plain-text content type, the status, msg and a newline
HTTPError(msg, code) ==
    [code |-> code, contentType |-> "text/plain; charset=utf-8", body |-> msg \o "\n"]

\* fmt.Printf("[ALERT] Device: %s - %s\n", result.DeviceID, alert)
AlertLine(deviceID, alert) == "[ALERT] Device: " \o deviceID \o " - " \o alert \o "\n"

\* a JSON string; no text of the input domains holds a character json escapes
Quote(str) == "\"" \o str \o "\""

RECURSIVE JoinQuoted(_)
JoinQuoted(strs) ==
    IF Len(strs) = 0 THEN ""
    ELSE IF Len(strs) = 1 THEN Quote(strs[1])
    ELSE Quote(strs[1]) \o "," \o JoinQuoted(Tail(strs))

\* json.NewEncoder(w).Encode(result): the object in field order and a newline;
\* a nil slice is encoded as null, any other as an array
EncodeJSON(r) ==
    "{\"status\":" \o Quote(r.Status) \o ",\"alerts\":"
        \o (IF AlertsIsNil(r) THEN "null" ELSE "[" \o JoinQuoted(r.Alerts) \o "]")
        \o ",\"device_id\":" \o Quote(r.DeviceID) \o "}\n"

(***************************************************************************)
(* Concurrent invocations: every goroutine that calls analyzeLog has its   *)
(* own frame, holding its copy of the record and its own result.           *)
(***************************************************************************)
MaxGoroutines == 2

Goroutines == 1..MaxGoroutines

IdleFrame == [pc |-> "idle", log |-> ZeroLogEntry, result |-> ZeroAnalysisResult]

NoFrames == [g \in Goroutines |-> IdleFrame]

\* the records the concurrent invocations are given
ConcEntries ==
    {rec \in LogEntry :
        /\ rec.Level \in {"ERROR", "INFO"}
        /\ rec.ResponseTime \in {2000, 2500}
        /\ rec.Temperature \in {8000, 8500}
        /\ rec.DeviceID = "sensor-001"}

(***************************************************************************)
(* State after construction: no invocation has run.                        *)
(***************************************************************************)
Init ==
    /\ log = ZeroLogEntry
    /\ result = ZeroAnalysisResult
    /\ pc = "idle"
    /\ earlier = NoInvocation
    /\ req = NoRequest
    /\ hpc = "idle"
    /\ hlog = ZeroLogEntry
    /\ hresult = ZeroAnalysisResult
    /\ idx = 1
    /\ console = <<>>
    /\ resp = NoResponse
    /\ frames = NoFrames

(***************************************************************************)
(* result := analyzeLog(log): the caller passes a decoded record by value; *)
(* the callee's frame is new, its result variable not yet constructed.     *)
(***************************************************************************)
Call ==
    /\ pc = "idle"
    /\ \E rec \in LogEntry : log' = rec
    /\ result' = ZeroAnalysisResult
    /\ pc' = "construct"
    /\ UNCHANGED <<earlier, handler, frames>>

\* variant: an empty device_id is replaced by a placeholder
Construct_DefaultDeviceID ==
    /\ pc = "construct"
    /\ result' = [Status |-> "OK", Alerts |-> <<>>,
                  DeviceID |-> IF log.DeviceID = "" THEN "unknown" ELSE log.DeviceID,
                  NilAlerts |-> FALSE]
    /\ pc' = "level"
    /\ UNCHANGED <<log, earlier, handler, frames>>

\* variant: the alerts slice is shared with the result of an earlier invocation
Construct_SharedAlerts ==
    /\ pc = "construct"
    /\ result' = [Status |-> "OK", Alerts |-> earlier.result.Alerts,
                  DeviceID |-> log.DeviceID, NilAlerts |-> earlier.result.NilAlerts]
    /\ pc' = "level"
    /\ UNCHANGED <<log, earlier, handler, frames>>

\* variant: the Alerts field is left out of the literal, hence nil
Construct_NilAlerts ==
    /\ pc = "construct"
    /\ result' = [Status |-> "OK", Alerts |-> <<>>, DeviceID |-> log.DeviceID,
                  NilAlerts |-> TRUE]
    /\ pc' = "level"
    /\ UNCHANGED <<log, earlier, handler, frames>>

\* result := AnalysisResult{Status: "OK", Alerts: []string{}, DeviceID: log.DeviceID}
Construct ==
    /\ pc = "construct"
    /\ result' = [Status |-> "OK", Alerts |-> <<>>, DeviceID |-> log.DeviceID,
                  NilAlerts |-> FALSE]
    /\ pc' = "level"
    /\ UNCHANGED <<log, earlier, handler, frames>>

\* variant: a record without a level is rejected, the invocation never returning
CheckLevel_RejectsEmptyLevel ==
    /\ pc = "level"
    /\ log.Level # ""
    /\ result' = IF log.Level = "ERROR"
                 THEN [result EXCEPT !.Alerts = Append(@, ErrorAlert(log.Message))]
                 ELSE result
    /\ pc' = "rt"
    /\ UNCHANGED <<log, earlier, handler, frames>>

\* variant: analyzeLog prints the alert itself
CheckLevel_Prints ==
    /\ pc = "level"
    /\ result' = IF log.Level = "ERROR"
                 THEN [result EXCEPT !.Alerts = Append(@, ErrorAlert(log.Message))]
                 ELSE result
    /\ console' = IF log.Level = "ERROR"
                  THEN Append(console, AlertLine(log.DeviceID, ErrorAlert(log.Message)))
                  ELSE console
    /\ pc' = "rt"
    /\ UNCHANGED <<log, earlier, req, hpc, hlog, hresult, idx, resp, frames>>

\* variant: the level is compared without regard to case
CheckLevel_CaseInsensitive ==
    /\ pc = "level"
    /\ result' = IF log.Level \in {"ERROR", "error"}
                 THEN [result EXCEPT !.Alerts = Append(@, ErrorAlert(log.Message))]
                 ELSE result
    /\ pc' = "rt"
    /\ UNCHANGED <<log, earlier, handler, frames>>

\* variant: an error without a message raises no alert
CheckLevel_SkipsEmptyMessage ==
    /\ pc = "level"
    /\ result' = IF log.Level = "ERROR" /\ log.Message # ""
                 THEN [result EXCEPT !.Alerts = Append(@, ErrorAlert(log.Message))]
                 ELSE result
    /\ pc' = "rt"
    /\ UNCHANGED <<log, earlier, handler, frames>>

\* 1. if log.Level == "ERROR" { append }
CheckLevel ==
    /\ pc = "level"
    /\ result' = IF log.Level = "ERROR"
                 THEN [result EXCEPT !.Alerts = Append(@, ErrorAlert(log.Message))]
                 ELSE result
    /\ pc' = "rt"
    /\ UNCHANGED <<log, earlier, handler, frames>>

\* variant: the response-time alert is put in front of the alerts
CheckResponseTime_Prepend ==
    /\ pc = "rt"
    /\ result' = IF log.ResponseTime > ResponseTimeThreshold
                 THEN [result EXCEPT !.Alerts =
                        <<ResponseTimeAlert(log.ResponseTime, ResponseTimeThreshold)>> \o @]
                 ELSE result
    /\ pc' = "temp"
    /\ UNCHANGED <<log, earlier, handler, frames>>

\* variant: >= in place of >
CheckResponseTime_Inclusive ==
    /\ pc = "rt"
    /\ result' = IF log.ResponseTime >= ResponseTimeThreshold
                 THEN [result EXCEPT !.Alerts =
                        Append(@, ResponseTimeAlert(log.ResponseTime, ResponseTimeThreshold))]
                 ELSE result
    /\ pc' = "temp"
    /\ UNCHANGED <<log, earlier, handler, frames>>

\* variant: the rule is applied only to records that name their device
CheckResponseTime_NeedsDevice ==
    /\ pc = "rt"
    /\ result' = IF log.DeviceID # "" /\ log.ResponseTime > ResponseTimeThreshold
                 THEN [result EXCEPT !.Alerts =
                        Append(@, ResponseTimeAlert(log.ResponseTime, ResponseTimeThreshold))]
                 ELSE result
    /\ pc' = "temp"
    /\ UNCHANGED <<log, earlier, handler, frames>>

\* 2. if log.ResponseTime > ResponseTimeThreshold { append }
CheckResponseTime ==
    /\ pc = "rt"
    /\ result' = IF log.ResponseTime > ResponseTimeThreshold
                 THEN [result EXCEPT !.Alerts =
                        Append(@, ResponseTimeAlert(log.ResponseTime, ResponseTimeThreshold))]
                 ELSE result
    /\ pc' = "temp"
    /\ UNCHANGED <<log, earlier, handler, frames>>

\* variant: else-if, the rule is skipped once an alert exists
CheckTemperature_ShortCircuit ==
    /\ pc = "temp"
    /\ result' = IF Len(result.Alerts) = 0 /\ log.Temperature > TemperatureThreshold
                 THEN [result EXCEPT !.Alerts =
                        Append(@, TemperatureAlert(log.Temperature, TemperatureThreshold))]
                 ELSE result
    /\ pc' = "status"
    /\ UNCHANGED <<log, earlier, handler, frames>>

\* variant: >= in place of >
CheckTemperature_Inclusive ==
    /\ pc = "temp"
    /\ result' = IF log.Temperature >= TemperatureThreshold
                 THEN [result EXCEPT !.Alerts =
                        Append(@, TemperatureAlert(log.Temperature, TemperatureThreshold))]
                 ELSE result
    /\ pc' = "status"
    /\ UNCHANGED <<log, earlier, handler, frames>>

\* variant: the comparison is made on the temperature rounded to one decimal
CheckTemperature_Rounded ==
    /\ pc = "temp"
    /\ result' = IF RoundTenths(log.Temperature) * 10 > TemperatureThreshold
                 THEN [result EXCEPT !.Alerts =
                        Append(@, TemperatureAlert(log.Temperature, TemperatureThreshold))]
                 ELSE result
    /\ pc' = "status"
    /\ UNCHANGED <<log, earlier, handler, frames>>

\* 3. if log.Temperature > TemperatureThreshold { append }
CheckTemperature ==
    /\ pc = "temp"
    /\ result' = IF log.Temperature > TemperatureThreshold
                 THEN [result EXCEPT !.Alerts =
                        Append(@, TemperatureAlert(log.Temperature, TemperatureThreshold))]
                 ELSE result
    /\ pc' = "status"
    /\ UNCHANGED <<log, earlier, handler, frames>>

\* variant: a single alert does not raise the status
SetStatus_OffByOne ==
    /\ pc = "status"
    /\ result' = IF Len(result.Alerts) > 1
                 THEN [result EXCEPT !.Status = "ALERT"]
                 ELSE result
    /\ pc' = "return"
    /\ UNCHANGED <<log, earlier, handler, frames>>

\* if len(result.Alerts) > 0 { result.Status = "ALERT" }
SetStatus ==
    /\ pc = "status"
    /\ result' = IF Len(result.Alerts) > 0
                 THEN [result EXCEPT !.Status = "ALERT"]
                 ELSE result
    /\ pc' = "return"
    /\ UNCHANGED <<log, earlier, handler, frames>>

\* return result: the frame (log, result) is discarded
Return ==
    /\ pc = "return"
    /\ pc' = "idle"
    /\ log' = ZeroLogEntry
    /\ result' = ZeroAnalysisResult
    /\ UNCHANGED <<earlier, handler, frames>>

\* return result, the observer keeping this invocation in place of the one it held
ReturnObserved ==
    /\ pc = "return"
    /\ pc' = "idle"
    /\ log' = ZeroLogEntry
    /\ result' = ZeroAnalysisResult
    /\ earlier' = [done |-> TRUE, log |-> log, result |-> result]
    /\ UNCHANGED <<handler, frames>>

Next ==
    \/ Call
    \/ Construct
    \/ CheckLevel
    \/ CheckResponseTime
    \/ CheckTemperature
    \/ SetStatus
    \/ Return
    \/ ReturnObserved

Spec == Init /\ [][Next]_vars

\* The invocations alone, nothing observed across them.
NextAnalyze ==
    \/ Call
    \/ Construct
    \/ CheckLevel
    \/ CheckResponseTime
    \/ CheckTemperature
    \/ SetStatus
    \/ Return

\* analyzeLog is straight-line code run by one goroutine: a statement that can
\* execute does execute.  Nothing obliges the caller to invoke again.
Step == Construct \/ CheckLevel \/ CheckResponseTime \/ CheckTemperature
            \/ SetStatus \/ Return

FairSpec == Init /\ [][NextAnalyze]_vars /\ WF_vars(Step)

(***************************************************************************)
(* The statements of analyzeLog as functions of the frame they run in.     *)
(***************************************************************************)
StmtConstruct(f) ==
    [f EXCEPT !.result = [Status |-> "OK", Alerts |-> <<>>, DeviceID |-> f.log.DeviceID,
                          NilAlerts |-> FALSE],
              !.pc = "level"]

StmtLevel(f) ==
    [f EXCEPT !.result = IF f.log.Level = "ERROR"
                         THEN [@ EXCEPT !.Alerts = Append(@, ErrorAlert(f.log.Message))]
                         ELSE @,
              !.pc = "rt"]

StmtResponseTime(f) ==
    [f EXCEPT !.result = IF f.log.ResponseTime > ResponseTimeThreshold
                         THEN [@ EXCEPT !.Alerts =
                                Append(@, ResponseTimeAlert(f.log.ResponseTime,
                                                            ResponseTimeThreshold))]
                         ELSE @,
              !.pc = "temp"]

StmtTemperature(f) ==
    [f EXCEPT !.result = IF f.log.Temperature > TemperatureThreshold
                         THEN [@ EXCEPT !.Alerts =
                                Append(@, TemperatureAlert(f.log.Temperature,
                                                           TemperatureThreshold))]
                         ELSE @,
              !.pc = "status"]

StmtStatus(f) ==
    [f EXCEPT !.result = IF Len(f.result.Alerts) > 0
                         THEN [@ EXCEPT !.Status = "ALERT"]
                         ELSE @,
              !.pc = "return"]

\* analyzeLog run from entry to return on its own frame
AnalyzeLogAlone(rec) ==
    StmtStatus(StmtTemperature(StmtResponseTime(StmtLevel(StmtConstruct(
        [pc |-> "construct", log |-> rec, result |-> ZeroAnalysisResult]))))).result

\* go analyzeLog(rec): goroutine g enters with its own copy of the record
GoCall(g) ==
    /\ frames[g].pc = "idle"
    /\ \E rec \in ConcEntries :
          frames' = [frames EXCEPT ![g] =
                        [pc |-> "construct", log |-> rec, result |-> ZeroAnalysisResult]]
    /\ UNCHANGED <<log, result, pc, earlier, handler>>

\* variant: result.Alerts is one package-level slice, the one another
\* goroutine is appending to
GoConstruct_SharedAlerts(g) ==
    /\ frames[g].pc = "construct"
    /\ \E h \in Goroutines \ {g} :
          frames' = [frames EXCEPT ![g] =
                        [@ EXCEPT !.result = [Status |-> "OK",
                                              Alerts |-> frames[h].result.Alerts,
                                              NilAlerts |-> FALSE,
                                              DeviceID |-> @.DeviceID],
                                  !.pc = "level"]]
    /\ UNCHANGED <<log, result, pc, earlier, handler>>

GoConstruct(g) ==
    /\ frames[g].pc = "construct"
    /\ frames' = [frames EXCEPT ![g] = StmtConstruct(@)]
    /\ UNCHANGED <<log, result, pc, earlier, handler>>

GoCheckLevel(g) ==
    /\ frames[g].pc = "level"
    /\ frames' = [frames EXCEPT ![g] = StmtLevel(@)]
    /\ UNCHANGED <<log, result, pc, earlier, handler>>

GoCheckResponseTime(g) ==
    /\ frames[g].pc = "rt"
    /\ frames' = [frames EXCEPT ![g] = StmtResponseTime(@)]
    /\ UNCHANGED <<log, result, pc, earlier, handler>>

GoCheckTemperature(g) ==
    /\ frames[g].pc = "temp"
    /\ frames' = [frames EXCEPT ![g] = StmtTemperature(@)]
    /\ UNCHANGED <<log, result, pc, earlier, handler>>

GoSetStatus(g) ==
    /\ frames[g].pc = "status"
    /\ frames' = [frames EXCEPT ![g] = StmtStatus(@)]
    /\ UNCHANGED <<log, result, pc, earlier, handler>>

\* return result: the frame of g is discarded
GoReturn(g) ==
    /\ frames[g].pc = "return"
    /\ frames' = [frames EXCEPT ![g] = IdleFrame]
    /\ UNCHANGED <<log, result, pc, earlier, handler>>

NextConc ==
    \E g \in Goroutines :
        \/ GoCall(g)
        \/ GoConstruct(g)
        \/ GoCheckLevel(g)
        \/ GoCheckResponseTime(g)
        \/ GoCheckTemperature(g)
        \/ GoSetStatus(g)
        \/ GoReturn(g)

ConcSpec == Init /\ [][NextConc]_vars

(***************************************************************************)
(* The HTTP handler registered by init(): one request at a time.           *)
(***************************************************************************)
\* the runtime hands a request and a fresh ResponseWriter to the handler
Receive ==
    /\ hpc = "idle"
    /\ \E r \in Requests : req' = r
    /\ hpc' = "method"
    /\ UNCHANGED <<log, result, pc, earlier, hlog, hresult, idx, console, resp, frames>>

\* variant: GET is let through as well
CheckMethod_AllowsGet ==
    /\ hpc = "method"
    /\ IF req.method \notin {"POST", "GET"}
       THEN /\ resp' = HTTPError("Method not allowed", 405)
            /\ hpc' = "done"
       ELSE /\ resp' = resp
            /\ hpc' = "decode"
    /\ UNCHANGED <<log, result, pc, earlier, req, hlog, hresult, idx, console, frames>>

\* if r.Method != http.MethodPost { http.Error(405); return }
CheckMethod ==
    /\ hpc = "method"
    /\ IF req.method # "POST"
       THEN /\ resp' = HTTPError("Method not allowed", 405)
            /\ hpc' = "done"
       ELSE /\ resp' = resp
            /\ hpc' = "decode"
    /\ UNCHANGED <<log, result, pc, earlier, req, hlog, hresult, idx, console, frames>>

\* variant: the decoding error is reported but the handler does not return
Decode_IgnoresError ==
    /\ hpc = "decode"
    /\ IF ~req.wellFormed
       THEN /\ resp' = HTTPError("Invalid JSON: " \o req.err, 400)
            /\ hlog' = hlog
            /\ hpc' = "analyze"
       ELSE /\ resp' = resp
            /\ hlog' = DecodeObject(req.object)
            /\ hpc' = "analyze"
    /\ UNCHANGED <<log, result, pc, earlier, req, hresult, idx, console, frames>>

\* variant: a decoded record with a negative reading is rejected
Decode_RejectsNegative ==
    /\ hpc = "decode"
    /\ IF ~req.wellFormed
       THEN /\ resp' = HTTPError("Invalid JSON: " \o req.err, 400)
            /\ hlog' = hlog
            /\ hpc' = "done"
       ELSE IF DecodeObject(req.object).ResponseTime < 0
                \/ DecodeObject(req.object).Temperature < 0
       THEN /\ resp' = HTTPError("Invalid JSON: negative value", 400)
            /\ hlog' = DecodeObject(req.object)
            /\ hpc' = "done"
       ELSE /\ resp' = resp
            /\ hlog' = DecodeObject(req.object)
            /\ hpc' = "analyze"
    /\ UNCHANGED <<log, result, pc, earlier, req, hresult, idx, console, frames>>

\* var log LogEntry; if err := Decode(&log); err != nil { http.Error(400); return }
Decode ==
    /\ hpc = "decode"
    /\ IF ~req.wellFormed
       THEN /\ resp' = HTTPError("Invalid JSON: " \o req.err, 400)
            /\ hlog' = hlog
            /\ hpc' = "done"
       ELSE /\ resp' = resp
            /\ hlog' = DecodeObject(req.object)
            /\ hpc' = "analyze"
    /\ UNCHANGED <<log, result, pc, earlier, req, hresult, idx, console, frames>>

\* result := analyzeLog(log): the call, the decoded record passed by value
HandlerCall ==
    /\ hpc = "analyze"
    /\ pc = "idle"
    /\ log' = hlog
    /\ result' = ZeroAnalysisResult
    /\ pc' = "construct"
    /\ hpc' = "analyzing"
    /\ UNCHANGED <<earlier, req, hlog, hresult, idx, console, resp, frames>>

\* result := analyzeLog(log): the return, the handler receiving the value
HandlerReturn ==
    /\ hpc = "analyzing"
    /\ pc = "return"
    /\ hresult' = result
    /\ idx' = 1
    /\ pc' = "idle"
    /\ log' = ZeroLogEntry
    /\ result' = ZeroAnalysisResult
    /\ hpc' = "print"
    /\ UNCHANGED <<earlier, req, hlog, console, resp, frames>>

\* for _, alert := range result.Alerts { fmt.Printf(...) }: one iteration
\* (the enclosing if len(result.Alerts) > 0 admits exactly the non-empty ranges)
PrintAlert ==
    /\ hpc = "print"
    /\ idx <= Len(hresult.Alerts)
    /\ console' = Append(console, AlertLine(hresult.DeviceID, hresult.Alerts[idx]))
    /\ idx' = idx + 1
    /\ UNCHANGED <<log, result, pc, earlier, req, hpc, hlog, hresult, resp, frames>>

\* variant: the loop is left after its first iteration
PrintDone_BreaksAfterFirst ==
    /\ hpc = "print"
    /\ idx > 1 \/ idx > Len(hresult.Alerts)
    /\ hpc' = "header"
    /\ UNCHANGED <<log, result, pc, earlier, req, hlog, hresult, idx, console, resp, frames>>

\* the range is exhausted, or the if was false
PrintDone ==
    /\ hpc = "print"
    /\ idx > Len(hresult.Alerts)
    /\ hpc' = "header"
    /\ UNCHANGED <<log, result, pc, earlier, req, hlog, hresult, idx, console, resp, frames>>

\* w.Header().Set("Content-Type", "application/json")
SetContentType ==
    /\ hpc = "header"
    /\ resp' = [resp EXCEPT !.contentType = "application/json"]
    /\ hpc' = "encode"
    /\ UNCHANGED <<log, result, pc, earlier, req, hlog, hresult, idx, console, frames>>

\* variant: an ALERT result is sent with a server-error status
Encode_AlertAsError ==
    /\ hpc = "encode"
    /\ resp' = [resp EXCEPT !.code = IF hresult.Status = "ALERT" THEN 500 ELSE 200,
                            !.body = @ \o EncodeJSON(hresult)]
    /\ hpc' = "done"
    /\ UNCHANGED <<log, result, pc, earlier, req, hlog, hresult, idx, console, frames>>

\* json.NewEncoder(w).Encode(result): the first write sends status 200
Encode ==
    /\ hpc = "encode"
    /\ resp' = [resp EXCEPT !.code = 200, !.body = @ \o EncodeJSON(hresult)]
    /\ hpc' = "done"
    /\ UNCHANGED <<log, result, pc, earlier, req, hlog, hresult, idx, console, frames>>

\* the handler has returned; what belonged to the request is discarded
Finish ==
    /\ hpc = "done"
    /\ hpc' = "idle"
    /\ req' = NoRequest
    /\ hlog' = ZeroLogEntry
    /\ hresult' = ZeroAnalysisResult
    /\ idx' = 1
    /\ console' = <<>>
    /\ resp' = NoResponse
    /\ UNCHANGED <<log, result, pc, earlier, frames>>

NextHandler ==
    \/ Receive
    \/ CheckMethod
    \/ Decode
    \/ HandlerCall
    \/ Construct
    \/ CheckLevel
    \/ CheckResponseTime
    \/ CheckTemperature
    \/ SetStatus
    \/ HandlerReturn
    \/ PrintAlert
    \/ PrintDone
    \/ SetContentType
    \/ Encode
    \/ Finish

HandlerSpec == Init /\ [][NextHandler]_vars

\* the handler runs on one goroutine without blocking: a statement that can
\* execute does execute.  Nothing obliges a client to send a request.
HandlerStep ==
    \/ CheckMethod
    \/ Decode
    \/ HandlerCall
    \/ Construct
    \/ CheckLevel
    \/ CheckResponseTime
    \/ CheckTemperature
    \/ SetStatus
    \/ HandlerReturn
    \/ PrintAlert
    \/ PrintDone
    \/ SetContentType
    \/ Encode

HandlerFairSpec == HandlerSpec /\ WF_vars(HandlerStep)

(***************************************************************************)
(* Vocabulary of the properties.  An invocation is "returning" when every  *)
(* rule has run and `return result` is the next statement: result is then  *)
(* the value the caller receives.                                          *)
(***************************************************************************)
Returning == pc = "return"

HasPrefix(s, p) == Len(s) >= Len(p) /\ SubSeq(s, 1, Len(p)) = p

KindOf(a) ==
    IF HasPrefix(a, "Error detected: ") THEN "level"
    ELSE IF HasPrefix(a, "High response time: ") THEN "response_time"
    ELSE IF HasPrefix(a, "High temperature: ") THEN "temperature"
    ELSE "other"

KindsOf(alerts) == [i \in 1..Len(alerts) |-> KindOf(alerts[i])]

\* the rule conditions as the specification words them
LevelHolds == log.Level = "ERROR"
ResponseTimeHolds == log.ResponseTime > 2000
TemperatureHolds == log.Temperature > 8000

B(c) == IF c THEN 1 ELSE 0

CountKind(alerts, k) == Cardinality({i \in 1..Len(alerts) : KindOf(alerts[i]) = k})

(***************************************************************************)
(* C1: the returned status is "ALERT" exactly when the returned alerts are *)
(* non-empty and "OK" otherwise; no other status value is returned.        *)
(***************************************************************************)
Thm_C1_StatusIffAlerts ==
    Returning =>
        /\ result.Status \in {"OK", "ALERT"}
        /\ (result.Status = "ALERT") <=> (Len(result.Alerts) > 0)
        /\ (result.Status = "OK") <=> (Len(result.Alerts) = 0)

Wit_C1_AlertWithOneAlert ==
    Returning /\ result.Status = "ALERT" /\ Len(result.Alerts) = 1

(***************************************************************************)
(* C2: the returned alerts are, in kind, the subsequence of                *)
(* [level, response_time, temperature] whose rules fired: the fixed order  *)
(* is kept and a rule that does not fire contributes nothing.              *)
(***************************************************************************)
FiredKinds ==
    (IF LevelHolds THEN <<"level">> ELSE <<>>)
        \o (IF ResponseTimeHolds THEN <<"response_time">> ELSE <<>>)
        \o (IF TemperatureHolds THEN <<"temperature">> ELSE <<>>)

Thm_C2_AlertOrder ==
    Returning => KindsOf(result.Alerts) = FiredKinds

Wit_C2_LevelThenTemperature ==
    /\ Returning
    /\ LevelHolds /\ ~ResponseTimeHolds /\ TemperatureHolds
    /\ KindsOf(result.Alerts) = <<"level", "temperature">>

(***************************************************************************)
(* C3: the rules are independent and do not short-circuit: in each of the  *)
(* 8 combinations of the three conditions the number of alerts is the      *)
(* number of conditions that hold, each firing rule contributing exactly   *)
(* one alert; the record of the second end-to-end example yields its three *)
(* alerts.                                                                 *)
(***************************************************************************)
Example2Record ==
    [Level |-> "ERROR", ResponseTime |-> 2500, DeviceID |-> "sensor-001",
     Temperature |-> 8500, Message |-> "Connection failed"]

Example2Result ==
    [Status |-> "ALERT",
     Alerts |-> <<"Error detected: Connection failed",
                  "High response time: 2500ms (threshold: 2000ms)",
                  "High temperature: 85.0°C (threshold: 80.0°C)">>,
     DeviceID |-> "sensor-001", NilAlerts |-> FALSE]

Thm_C3_RulesIndependent ==
    Returning =>
        /\ Len(result.Alerts) = B(LevelHolds) + B(ResponseTimeHolds) + B(TemperatureHolds)
        /\ CountKind(result.Alerts, "level") = B(LevelHolds)
        /\ CountKind(result.Alerts, "response_time") = B(ResponseTimeHolds)
        /\ CountKind(result.Alerts, "temperature") = B(TemperatureHolds)
        /\ (log = Example2Record => result = Example2Result)

Wit_C3_AllThreeFire ==
    /\ Returning
    /\ LevelHolds /\ ResponseTimeHolds /\ TemperatureHolds
    /\ Len(result.Alerts) = 3

(***************************************************************************)
(* C4: a record with level other than "ERROR", response_time <= 2000 and   *)
(* temperature <= 80.0 returns status "OK" and no alerts.                  *)
(***************************************************************************)
Thm_C4_QuietRecordIsOK ==
    (Returning /\ log.Level # "ERROR" /\ log.ResponseTime <= 2000
        /\ log.Temperature <= 8000)
    => (result.Status = "OK" /\ result.Alerts = <<>>)

Wit_C4_QuietAtBothThresholds ==
    /\ Returning
    /\ log.Level = "INFO" /\ log.ResponseTime = 2000 /\ log.Temperature = 8000
    /\ result.Status = "OK"

(***************************************************************************)
(* C5: a record with level "ERROR" returns, whatever its response_time and *)
(* temperature, "Error detected: " followed by its message as the first    *)
(* alert, and status "ALERT".                                              *)
(***************************************************************************)
Thm_C5_ErrorAlertFirst ==
    (Returning /\ log.Level = "ERROR") =>
        /\ Len(result.Alerts) >= 1
        /\ result.Alerts[1] = "Error detected: " \o log.Message
        /\ (log.Message = "Connection failed"
                => result.Alerts[1] = "Error detected: Connection failed")
        /\ result.Status = "ALERT"

Wit_C5_ErrorWithOtherRules ==
    /\ Returning
    /\ log.Level = "ERROR" /\ log.Message = "Connection failed"
    /\ log.ResponseTime > 2000 /\ log.Temperature > 8000
    /\ result.Alerts[1] = "Error detected: Connection failed"

(***************************************************************************)
(* C6: the device_id of the result equals the device_id of the record,     *)
(* the empty string included, from the construction of the result to its   *)
(* return: it is not validated, normalised or rejected, and no rule        *)
(* changes it.                                                             *)
(***************************************************************************)
Thm_C6_DeviceIDPassThrough ==
    pc \in {"level", "rt", "temp", "status", "return"}
        => result.DeviceID = log.DeviceID

Wit_C6_EmptyDeviceIDReturned ==
    /\ Returning
    /\ log.DeviceID = "" /\ result.DeviceID = ""
    /\ Len(result.Alerts) = 3

(***************************************************************************)
(* C7: the response-time rule fires exactly when response_time > 2000:     *)
(* 2000 gives no response-time alert, 2001 gives                           *)
(* "High response time: 2001ms (threshold: 2000ms)", and the text always   *)
(* carries the record's own response_time and the threshold 2000.          *)
(***************************************************************************)
ResponseTimeAlertsOf(alerts) ==
    {i \in 1..Len(alerts) : KindOf(alerts[i]) = "response_time"}

Thm_C7_ResponseTimeBoundary ==
    Returning =>
        LET rts == ResponseTimeAlertsOf(result.Alerts) IN
        /\ (log.ResponseTime > 2000) <=> (rts # {})
        /\ log.ResponseTime = 2000 => rts = {}
        /\ log.ResponseTime = 2001 =>
              \E i \in rts :
                  result.Alerts[i] = "High response time: 2001ms (threshold: 2000ms)"
        /\ log.ResponseTime = 2500 =>
              \E i \in rts :
                  result.Alerts[i] = "High response time: 2500ms (threshold: 2000ms)"
        /\ \A i \in rts :
              result.Alerts[i] = "High response time: " \o FormatInt(log.ResponseTime)
                                    \o "ms (threshold: 2000ms)"

Wit_C7_FiresAt2001 ==
    /\ Returning
    /\ log.ResponseTime = 2001
    /\ result.Alerts = <<"High response time: 2001ms (threshold: 2000ms)">>

(***************************************************************************)
(* C8: the temperature rule fires exactly when temperature > 80.0, on the  *)
(* unrounded value: 80.0 gives no temperature alert, 80.1 gives            *)
(* "High temperature: 80.1°C (threshold: 80.0°C)", and the text shows the  *)
(* temperature with exactly one decimal (85 as "85.0").                    *)
(***************************************************************************)
TemperatureAlertsOf(alerts) ==
    {i \in 1..Len(alerts) : KindOf(alerts[i]) = "temperature"}

Thm_C8_TemperatureBoundary ==
    Returning =>
        LET ts == TemperatureAlertsOf(result.Alerts) IN
        /\ (log.Temperature > 8000) <=> (ts # {})
        /\ log.Temperature = 8000 => ts = {}
        /\ log.Temperature = 8010 =>
              \E i \in ts :
                  result.Alerts[i] = "High temperature: 80.1°C (threshold: 80.0°C)"
        /\ log.Temperature = 8500 =>
              \E i \in ts :
                  result.Alerts[i] = "High temperature: 85.0°C (threshold: 80.0°C)"
        /\ log.Temperature = 8004 =>
              \E i \in ts :
                  result.Alerts[i] = "High temperature: 80.0°C (threshold: 80.0°C)"

Wit_C8_FiresAt80Point1 ==
    /\ Returning
    /\ log.Temperature = 8010
    /\ result.Alerts = <<"High temperature: 80.1°C (threshold: 80.0°C)">>

(***************************************************************************)
(* C9: analyzeLog is total: every started invocation, whatever its record, *)
(* reaches its return statement, no statement being blocked; the           *)
(* all-default record returns status "OK", no alerts, empty device_id.     *)
(***************************************************************************)
InAnalyzeLog == pc \in {"construct", "level", "rt", "temp", "status", "return"}

Thm_C9_Total ==
    /\ [](InAnalyzeLog => ENABLED Step)
    /\ [][InAnalyzeLog /\ ~Returning => log' = log]_vars
    /\ (pc = "construct") ~> Returning
    /\ []((Returning /\ log = ZeroLogEntry) =>
            result = [Status |-> "OK", Alerts |-> <<>>, DeviceID |-> "",
                      NilAlerts |-> FALSE])

Wit_C9_DefaultRecordReturned ==
    Returning /\ log = ZeroLogEntry /\ result.Status = "OK"

(***************************************************************************)
(* C10: the result of an invocation is determined by its own record: it    *)
(* equals the result any earlier invocation returned for an equal record,  *)
(* whatever was invoked in between.                                        *)
(***************************************************************************)
Thm_C10_Stateless ==
    (Returning /\ earlier.done /\ earlier.log = log) => result = earlier.result

Wit_C10_SameRecordAgain ==
    /\ Returning
    /\ earlier.done /\ earlier.log = log
    /\ Len(result.Alerts) = 2

(***************************************************************************)
(* C11: under every interleaving of concurrent invocations, each one       *)
(* returns the result it returns when run alone, and every alert of its    *)
(* result is an alert of its own record, never one generated for another.  *)
(***************************************************************************)
OwnAlerts(rec) ==
    {"Error detected: " \o rec.Message,
     "High response time: " \o FormatInt(rec.ResponseTime) \o "ms (threshold: 2000ms)",
     "High temperature: " \o FormatFloat1(rec.Temperature) \o "°C (threshold: 80.0°C)"}

Thm_C11_ConcurrentIndependent ==
    \A g \in Goroutines :
        frames[g].pc = "return" =>
            /\ frames[g].result = AnalyzeLogAlone(frames[g].log)
            /\ \A i \in 1..Len(frames[g].result.Alerts) :
                  frames[g].result.Alerts[i] \in OwnAlerts(frames[g].log)

Wit_C11_TwoReturningDifferentRecords ==
    /\ frames[1].pc = "return" /\ frames[2].pc = "return"
    /\ frames[1].log # frames[2].log
    /\ Len(frames[1].result.Alerts) = 3
    /\ Len(frames[2].result.Alerts) = 1

\* the pure composition agrees with the statement-by-statement invocation
AloneAgrees == Returning => result = AnalyzeLogAlone(log)

(***************************************************************************)
(* C12: analyzeLog has no side effect: while it runs nothing is written to *)
(* the console or to the HTTP response, and its statements change only its *)
(* own result; the console grows only in the handler's print loop, hence   *)
(* only after analyzeLog has returned.                                     *)
(***************************************************************************)
AfterAnalysis == hpc \in {"print", "header", "encode", "done"}

Thm_C12_NoSideEffect ==
    /\ [][pc # "idle" => (console' = console /\ resp' = resp /\ req' = req
                            /\ hlog' = hlog)]_vars
    /\ [][(pc \in {"construct", "level", "rt", "temp", "status"}) =>
            (UNCHANGED <<log, earlier, handler, frames>>)]_vars
    /\ [][Len(console') > Len(console) => (hpc = "print" /\ pc = "idle")]_vars
    /\ [](console # <<>> => AfterAnalysis)

Wit_C12_AnalysedNothingPrinted ==
    /\ hpc = "analyzing" /\ pc = "return"
    /\ Len(result.Alerts) = 3
    /\ console = <<>> /\ resp = NoResponse

(***************************************************************************)
(* C13: a record whose temperature was not provided is decoded with        *)
(* temperature 0.0 and never triggers the temperature rule: no temperature *)
(* alert, and status "ALERT" only if the level or response-time rule fired.*)
(***************************************************************************)
TemperatureAbsent == req.wellFormed /\ "temperature" \notin DOMAIN req.object

Thm_C13_AbsentTemperatureQuiet ==
    (TemperatureAbsent /\ hpc = "analyzing" /\ Returning) =>
        /\ log.Temperature = 0
        /\ CountKind(result.Alerts, "temperature") = 0
        /\ result.Status = "ALERT" => (log.Level = "ERROR" \/ log.ResponseTime > 2000)

Wit_C13_AbsentTemperatureOK ==
    /\ TemperatureAbsent /\ hpc = "analyzing" /\ Returning
    /\ DOMAIN req.object = {"level", "device_id"}
    /\ result.Status = "OK"

(***************************************************************************)
(* C14: the level rule fires only on the exact string "ERROR": any other   *)
(* level ("INFO", "error", the empty string) gives no error-level alert    *)
(* and is not rejected, the record being analysed by the other two rules.  *)
(***************************************************************************)
Thm_C14_LevelExactMatch ==
    (Returning /\ log.Level # "ERROR") =>
        /\ CountKind(result.Alerts, "level") = 0
        /\ Len(result.Alerts) = B(log.ResponseTime > 2000) + B(log.Temperature > 8000)
        /\ result.Status = IF log.ResponseTime > 2000 \/ log.Temperature > 8000
                           THEN "ALERT" ELSE "OK"

Wit_C14_LowercaseErrorIsOK ==
    Returning /\ log.Level = "error" /\ result.Status = "OK" /\ result.Alerts = <<>>

(***************************************************************************)
(* C15: a record with level "ERROR" whose message is absent or empty still *)
(* gets the error-level alert, its text exactly "Error detected: ", and    *)
(* status "ALERT".                                                         *)
(***************************************************************************)
MessageAbsentOrEmpty ==
    req.wellFormed /\ ("message" \notin DOMAIN req.object \/ req.object["message"] = "")

Thm_C15_EmptyMessageStillAlerts ==
    (MessageAbsentOrEmpty /\ hpc = "analyzing" /\ Returning /\ log.Level = "ERROR") =>
        /\ Len(result.Alerts) >= 1
        /\ result.Alerts[1] = "Error detected: "
        /\ result.Status = "ALERT"

Wit_C15_AbsentMessageAlert ==
    /\ req.wellFormed /\ "message" \notin DOMAIN req.object
    /\ hpc = "analyzing" /\ Returning /\ log.Level = "ERROR"
    /\ result.Alerts = <<"Error detected: ">>

(***************************************************************************)
(* C16: response_time and temperature are not validated: a record with a   *)
(* negative response_time or temperature is not rejected (the request is   *)
(* answered with the analysis result), is analysed like any other record,  *)
(* and does not fire the rule of the negative field.                       *)
(***************************************************************************)
Thm_C16_NegativesNotValidated ==
    /\ (hpc = "analyzing" /\ Returning /\ log.ResponseTime < 0)
            => CountKind(result.Alerts, "response_time") = 0
    /\ (hpc = "analyzing" /\ Returning /\ log.Temperature < 0)
            => CountKind(result.Alerts, "temperature") = 0
    /\ (hpc = "analyzing" /\ Returning /\ (log.ResponseTime < 0 \/ log.Temperature < 0))
            => Len(result.Alerts) = B(log.Level = "ERROR") + B(log.ResponseTime > 2000)
                                        + B(log.Temperature > 8000)
    /\ (hpc = "done" /\ req.method = "POST" /\ req.wellFormed
            /\ (DecodeObject(req.object).ResponseTime < 0
                    \/ DecodeObject(req.object).Temperature < 0))
            => (resp.code = 200 /\ resp.body = EncodeJSON(hresult))

Wit_C16_NegativeBothAnswered ==
    /\ hpc = "done" /\ req.method = "POST" /\ req.wellFormed
    /\ hlog.ResponseTime = -1 /\ hlog.Temperature = -500
    /\ resp.code = 200 /\ hresult.Status = "OK"

(***************************************************************************)
(* C17: a request whose method is not POST is answered 405 "Method not     *)
(* allowed" and nothing else happens: the method check is first, the body  *)
(* is not decoded, analyzeLog is not invoked, no "[ALERT]" line is printed *)
(* and no JSON result is written, also when the body is malformed.         *)
(***************************************************************************)
Serving == hpc # "idle"

Thm_C17_NonPostRejected ==
    (Serving /\ req.method # "POST") =>
        /\ hpc \in {"method", "done"}
        /\ pc = "idle"
        /\ hlog = ZeroLogEntry /\ hresult = ZeroAnalysisResult
        /\ console = <<>>
        /\ hpc = "method" => resp = NoResponse
        /\ hpc = "done" =>
              /\ resp.code = 405
              /\ resp.body = "Method not allowed\n"
              /\ resp.contentType # "application/json"

Wit_C17_GetMalformedIs405 ==
    /\ hpc = "done" /\ req.method = "GET" /\ ~req.wellFormed
    /\ resp.code = 405

(***************************************************************************)
(* C18: a POST request whose body cannot be decoded is answered 400 with a *)
(* message starting "Invalid JSON: ", and the handler stops: analyzeLog is *)
(* not invoked, no "[ALERT]" line is printed, no analysis result written.  *)
(***************************************************************************)
Thm_C18_UndecodableIs400 ==
    (Serving /\ req.method = "POST" /\ ~req.wellFormed) =>
        /\ hpc \in {"method", "decode", "done"}
        /\ pc = "idle"
        /\ hresult = ZeroAnalysisResult
        /\ console = <<>>
        /\ hpc # "done" => resp = NoResponse
        /\ hpc = "done" =>
              /\ resp.code = 400
              /\ HasPrefix(resp.body, "Invalid JSON: ")
              /\ resp.body = "Invalid JSON: " \o req.err \o "\n"
              /\ resp.contentType # "application/json"

Wit_C18_UnexpectedEOFIs400 ==
    /\ hpc = "done" /\ req.method = "POST" /\ ~req.wellFormed
    /\ resp.body = "Invalid JSON: unexpected EOF\n"

(***************************************************************************)
(* C19: for a decoded POST request the handler prints one line             *)
(* "[ALERT] Device: <device_id> - <alert>" per alert of the result, in the *)
(* order of the alerts, all after analyzeLog returned and before the JSON  *)
(* result is written; with status "OK" it prints none.                     *)
(***************************************************************************)
ExpectedLines(r, n) ==
    [i \in 1..n |-> "[ALERT] Device: " \o r.DeviceID \o " - " \o r.Alerts[i] \o "\n"]

Thm_C19_OneLinePerAlert ==
    /\ hpc \in {"method", "decode", "analyze", "analyzing"} => console = <<>>
    /\ hpc = "print" =>
          /\ idx \in 1..(Len(hresult.Alerts) + 1)
          /\ console = ExpectedLines(hresult, idx - 1)
          /\ resp = NoResponse
    /\ hpc \in {"header", "encode"} =>
          /\ console = ExpectedLines(hresult, Len(hresult.Alerts))
          /\ resp.code = 0 /\ resp.body = ""
    /\ (hpc = "done" /\ req.method = "POST" /\ req.wellFormed) =>
          /\ console = ExpectedLines(hresult, Len(hresult.Alerts))
          /\ hresult.DeviceID = hlog.DeviceID
          /\ hresult.Status = "OK" => console = <<>>
          /\ hresult = Example2Result =>
                console = <<"[ALERT] Device: sensor-001 - Error detected: Connection failed\n",
                            "[ALERT] Device: sensor-001 - High response time: 2500ms (threshold: 2000ms)\n",
                            "[ALERT] Device: sensor-001 - High temperature: 85.0°C (threshold: 80.0°C)\n">>

Wit_C19_ThreeLinesThenResponse ==
    /\ hpc = "done" /\ req.method = "POST" /\ req.wellFormed
    /\ hresult = Example2Result
    /\ Len(console) = 3
    /\ resp.code = 200

(***************************************************************************)
(* C20: every request ends in exactly one of three outcomes, after which   *)
(* the handler has terminated: 405 for a method other than POST, 400 for   *)
(* an undecodable body, or a response with Content-Type application/json   *)
(* carrying the analysis result, for status "ALERT" as for status "OK".    *)
(***************************************************************************)
Outcome405 == resp.code = 405 /\ resp.body = "Method not allowed\n"

Outcome400 == resp.code = 400 /\ HasPrefix(resp.body, "Invalid JSON: ")

OutcomeResult ==
    /\ resp.code = 200
    /\ resp.contentType = "application/json"
    /\ resp.body = EncodeJSON(hresult)
    /\ hresult.Status \in {"OK", "ALERT"}

Thm_C20_ThreeOutcomes ==
    /\ (hpc = "method") ~> (hpc = "done")
    /\ [](hpc = "done" =>
            /\ B(Outcome405) + B(Outcome400) + B(OutcomeResult) = 1
            /\ Outcome405 <=> req.method # "POST"
            /\ Outcome400 <=> (req.method = "POST" /\ ~req.wellFormed)
            /\ OutcomeResult <=> (req.method = "POST" /\ req.wellFormed)
            /\ hresult = Example2Result =>
                  resp.body = "{\"status\":\"ALERT\",\"alerts\":[\"Error detected: Connection failed\",\"High response time: 2500ms (threshold: 2000ms)\",\"High temperature: 85.0°C (threshold: 80.0°C)\"],\"device_id\":\"sensor-001\"}\n")
    /\ [][resp.code # 0 => (resp' = resp \/ hpc = "done")]_vars
    /\ [][hpc = "done" => hpc' = "idle"]_vars

Wit_C20_AlertAnswered200 ==
    /\ hpc = "done"
    /\ hresult.Status = "ALERT"
    /\ OutcomeResult

(***************************************************************************)
(* C21: the alerts of an invocation are a sequence constructed afresh by   *)
(* it (empty at construction whatever an earlier invocation returned),     *)
(* never nil, the empty sequence when no rule fires, of at most 3          *)
(* elements, each of one of the three alert kinds, no kind twice.          *)
(***************************************************************************)
AlertKinds == {"level", "response_time", "temperature"}

Thm_C21_AlertsWellFormed ==
    /\ pc = "level" => (result.Alerts = <<>> /\ ~AlertsIsNil(result))
    /\ pc \in {"level", "rt", "temp", "status", "return"} =>
          /\ ~AlertsIsNil(result)
          /\ Len(result.Alerts) <= 3
          /\ \A i \in 1..Len(result.Alerts) : KindOf(result.Alerts[i]) \in AlertKinds
          /\ \A k \in AlertKinds : CountKind(result.Alerts, k) <= 1
    /\ (Returning /\ ~LevelHolds /\ ~ResponseTimeHolds /\ ~TemperatureHolds) =>
          (result.Alerts = <<>> /\ ~AlertsIsNil(result))

Wit_C21_EmptyNotNilAfterThree ==
    /\ Returning
    /\ result.Alerts = <<>> /\ ~AlertsIsNil(result)
    /\ earlier.done /\ Len(earlier.result.Alerts) = 3

(***************************************************************************)
(* C22: two records that agree on level, response_time and temperature get *)
(* the same status and the same number and kinds of alerts, whatever their *)
(* device_id and message: device_id shows only in the result's device_id,  *)
(* message only in the text of the error-level alert, and only when the    *)
(* level is "ERROR".                                                       *)
(***************************************************************************)
AgreeOnRuleInputs(a, b) ==
    /\ a.Level = b.Level
    /\ a.ResponseTime = b.ResponseTime
    /\ a.Temperature = b.Temperature

Thm_C22_PassThroughNonInterference ==
    (Returning /\ earlier.done /\ AgreeOnRuleInputs(log, earlier.log)) =>
        /\ result.Status = earlier.result.Status
        /\ KindsOf(result.Alerts) = KindsOf(earlier.result.Alerts)
        /\ result.DeviceID = log.DeviceID
        /\ \A i \in 1..Len(result.Alerts) :
              KindOf(result.Alerts[i]) # "level"
                  => result.Alerts[i] = earlier.result.Alerts[i]
        /\ log.Level # "ERROR" => result.Alerts = earlier.result.Alerts
        /\ log.Message = earlier.log.Message => result.Alerts = earlier.result.Alerts

Wit_C22_OtherDeviceOtherMessage ==
    /\ Returning /\ earlier.done /\ AgreeOnRuleInputs(log, earlier.log)
    /\ log.DeviceID # earlier.log.DeviceID
    /\ log.Message # earlier.log.Message
    /\ log.Level = "ERROR"
    /\ Len(result.Alerts) = 3

TypeOK ==
    /\ log \in LogEntry
    /\ pc \in {"idle", "construct", "level", "rt", "temp", "status", "return"}
    /\ result.Status \in {"", "OK", "ALERT"}
    /\ result.DeviceID \in DeviceIDs
    /\ Len(result.Alerts) <= 3
====
